---- MODULE Spec2Model ----
(***************************************************************************)
(* Model of github-commit-tracker: branch-strategy resolution              *)
(* (github_client.py, config_parser.py), date-range resolution             *)
(* (config_parser.py), the commit collector (github_client.py),            *)
(* configuration loading and validation (config_parser.py), the sort       *)
(* stage and the command-line run (main.py).                               *)
(*                                                                         *)
(* Python values are modelled as follows.                                  *)
(*   dict   a function whose DOMAIN is the set of keys present             *)
(*   list   a sequence                                                     *)
(*   str    a TLA+ string; where the code looks inside a string (strip,    *)
(*          lower) the string is a sequence of one-character strings       *)
(*   None   the string None below                                          *)
(***************************************************************************)
EXTENDS Integers, Sequences, FiniteSets, TLC

VARIABLES
    pc,               \* position of the operation under way
    \* ---- branch-strategy resolution
    branch_strategy,  \* config['branch_strategy']: mode, branches?, overrides?
    repo_full_name,   \* the repository a strategy is resolved for
    repo_strategy,    \* result of GitHubCommitTracker._get_repo_specific_strategy
    cfg_strategy,     \* result of ConfigParser.get_branch_strategy
    remote_branches,  \* what repo.get_branches() answers: [ok, names]
    all_branches,     \* result of get_all_repository_branches
    target_branches,  \* result of _get_target_branches
    \* ---- date-range resolution
    config_date_range, \* config['date_range']: from?, to?
    dry_run,          \* args.dry_run
    clock,            \* what datetime.now() answers: [ord, minute]
    clock_reads,      \* number of datetime.now() calls made
    yesterday,        \* local of get_date_range while input() blocks
    to_date,          \* local of get_date_range while input() blocks
    prompts,          \* number of input() calls made
    answer,           \* the line the operator typed at the last prompt
    date_range,       \* result of get_date_range: [from, to]
    \* ---- commit collection
    usernames,        \* self.usernames
    organizations,    \* the configured organizations, in order
    failing,          \* the remote call that raises GithubException in this run
    org_idx,          \* position of 'for org_name in organizations'
    repositories,     \* full names listed for the current organization
    repo_idx,         \* position of 'for repo in repositories'
    branch_idx,       \* position of 'for branch in target_branches'
    remote_commits,   \* what repo.get_commits() yields: [commits, raises_after]
    branch_commits,   \* result of the last get_commits_from_branch
    all_commits,      \* the result list being built
    fetch_log,        \* history: the (repository, branch) of every commit fetch
    remote_calls,     \* history: number of remote listings requested so far
    \* ---- the command-line run (main)
    config_file,      \* the file at args.config: [state, content, scalars]
    load_error,       \* the exception load_config raised, None when it returned
    self_from_date,   \* self.from_date of the client: a datetime, NoDatetime for None
    self_to_date,     \* self.to_date of the client
    exit_code,        \* the process exit status: 0 unless sys.exit(1) ran
    stdout,           \* the kinds of message printed to standard output, in order
    stderr,           \* the kinds of message printed to standard error, in order
    sort_order,       \* the sort_order argument of sort_commits
    sorted_commits    \* result of sort_commits

resolveVars == <<branch_strategy, repo_full_name, repo_strategy, cfg_strategy,
                 remote_branches, all_branches, target_branches>>

dateVars == <<config_date_range, dry_run, clock, clock_reads, yesterday, to_date,
              prompts, answer, date_range>>

collectVars == <<usernames, organizations, failing, org_idx, repositories, repo_idx,
                 branch_idx, remote_commits, branch_commits, all_commits, fetch_log,
                 remote_calls>>

mainVars == <<config_file, load_error, self_from_date, self_to_date, exit_code, stdout,
              stderr, sort_order, sorted_commits>>

vars == <<pc, resolveVars, dateVars, collectVars, mainVars>>

None == "<None>"

\* the variables of an operation that a specification does not run
ResolveIdle ==
    /\ branch_strategy = [mode |-> "all"]
    /\ repo_full_name = None
    /\ repo_strategy = [mode |-> None]
    /\ cfg_strategy = [mode |-> None]
    /\ remote_branches = [ok |-> FALSE, names |-> <<>>]
    /\ all_branches = <<>>
    /\ target_branches = <<>>

DateIdle ==
    /\ config_date_range = <<>>
    /\ dry_run = FALSE
    /\ clock = [ord |-> 0, minute |-> 0]
    /\ clock_reads = 0
    /\ yesterday = [ord |-> 0, minute |-> 0]
    /\ to_date = None
    /\ prompts = 0
    /\ answer = None
    /\ date_range = [from |-> None, to |-> None]

NoFailure == [kind |-> "none", org |-> None, repo |-> None, branch |-> None, after |-> 0]

CollectIdle ==
    /\ usernames = <<>>
    /\ organizations = <<>>
    /\ failing = NoFailure
    /\ org_idx = 0
    /\ repositories = <<>>
    /\ repo_idx = 0
    /\ branch_idx = 0
    /\ remote_commits = [commits |-> <<>>, raises_after |-> -1]
    /\ branch_commits = <<>>
    /\ all_commits = <<>>
    /\ fetch_log = <<>>
    /\ remote_calls = 0

\* a datetime.datetime is [year, month, day, hour, minute]; this record stands
\* for None where a datetime is optional
NoDatetime == [year |-> 0, month |-> 0, day |-> 0, hour |-> 0, minute |-> 0]

MainIdle ==
    /\ config_file = [state |-> "ok", content |-> <<>>, scalars |-> {}]
    /\ load_error = None
    /\ self_from_date = NoDatetime
    /\ self_to_date = NoDatetime
    /\ exit_code = 0
    /\ stdout = <<>>
    /\ stderr = <<>>
    /\ sort_order = "asc"
    /\ sorted_commits = <<>>

(***************************************************************************)
(* Bounds and input universes.                                             *)
(***************************************************************************)
MaxCfgBranches == 2      \* longest configured 'branches' list

BranchNames == {"main", "dev", "rel"}
Modes       == {"all", "specific", "priority"}

Range(s) == {s[i] : i \in 1..Len(s)}

SeqsUpTo(S, n) == UNION {[1..k -> S] : k \in 0..n}

\* lists without repeated elements: a repository's branch names are unique
DistinctSeqs(S) == {s \in SeqsUpTo(S, Cardinality(S)) : Cardinality(Range(s)) = Len(s)}

\* a strategy dict: 'mode' with or without a 'branches' list; "legacy" stands
\* for any mode string outside the three known ones, and a dict may lack 'mode'
StrategyDicts ==
    LET lists == SeqsUpTo(BranchNames, MaxCfgBranches) IN
    {[mode |-> m] : m \in Modes \cup {"legacy"}}
        \cup {[mode |-> m, branches |-> b] : m \in Modes \cup {"legacy"}, b \in lists}
        \cup {[branches |-> b] : b \in lists}

BranchResponses ==
    {[ok |-> FALSE, names |-> <<>>]}
        \cup {[ok |-> TRUE, names |-> l] : l \in DistinctSeqs(BranchNames)}

(***************************************************************************)
(* dict.get(key, default)                                                  *)
(***************************************************************************)
Get(d, key, default) == IF key \in DOMAIN d THEN d[key] ELSE default

\* x in list
Contains(list, x) == \E i \in 1..Len(list) : list[i] = x

(***************************************************************************)
(* GitHubCommitTracker.get_all_repository_branches: the names the remote   *)
(* lists, or [] when the listing raises GithubException.                   *)
(***************************************************************************)
GetAllRepositoryBranches(response) ==
    IF response.ok THEN response.names ELSE <<>>

(***************************************************************************)
(* GitHubCommitTracker._get_target_branches                                *)
(***************************************************************************)
\* faulty variant: the configured branches that exist, but in the repository's order
SpecificBranchesRepoOrder(specified_branches, branches) ==
    SelectSeq(branches, LAMBDA branch : Contains(specified_branches, branch))

\* [branch for branch in specified_branches if branch in all_branches]
SpecificBranches(specified_branches, branches) ==
    SelectSeq(specified_branches, LAMBDA branch : Contains(branches, branch))

\* faulty variant: first branch of the repository's list that is configured
RECURSIVE FirstExistingRepoOrder(_, _)
FirstExistingRepoOrder(priority_branches, branches) ==
    IF branches = <<>> THEN <<>>
    ELSE IF Contains(priority_branches, Head(branches)) THEN <<Head(branches)>>
    ELSE FirstExistingRepoOrder(priority_branches, Tail(branches))

\* for branch in priority_branches: if branch in all_branches: return [branch]
RECURSIVE FirstExisting(_, _)
FirstExisting(priority_branches, branches) ==
    IF priority_branches = <<>> THEN <<>>
    ELSE IF Contains(branches, Head(priority_branches)) THEN <<Head(priority_branches)>>
    ELSE FirstExisting(Tail(priority_branches), branches)

\* faulty variant: mode 'all' narrowed to the configured branches when there are any
GetTargetBranchesAllConfigured(branches, strategy) ==
    LET mode == Get(strategy, "mode", "all")
        configured == Get(strategy, "branches", <<>>) IN
    IF mode = "all"
    THEN IF configured = <<>> THEN branches
         ELSE SelectSeq(branches, LAMBDA branch : Contains(configured, branch))
    ELSE IF mode = "specific" THEN SpecificBranches(configured, branches)
    ELSE IF mode = "priority" THEN FirstExisting(configured, branches)
    ELSE <<>>

GetTargetBranches(branches, strategy) ==
    LET mode == Get(strategy, "mode", "all") IN
    IF mode = "all" THEN branches
    ELSE IF mode = "specific" THEN SpecificBranches(Get(strategy, "branches", <<>>), branches)
    ELSE IF mode = "priority" THEN FirstExisting(Get(strategy, "branches", <<>>), branches)
    ELSE <<>>

\* _get_target_branches lists the repository's branches in its three known
\* modes only
ListsBranches(strategy) == Get(strategy, "mode", "all") \in Modes

(***************************************************************************)
(* Target-branch resolution on its own: a strategy and a remote branch     *)
(* listing are drawn, _get_target_branches is applied.                     *)
(***************************************************************************)
InitTarget ==
    /\ pc = "target"
    /\ repo_strategy \in StrategyDicts
    /\ remote_branches \in BranchResponses
    /\ branch_strategy = [mode |-> "all"]
    /\ repo_full_name = None
    /\ cfg_strategy = [mode |-> None]
    /\ all_branches = <<>>
    /\ target_branches = <<>>
    /\ DateIdle
    /\ CollectIdle
    /\ MainIdle

\* _get_target_branches(repo, repo_strategy), the branch listing included
TargetBranchesStep ==
    /\ pc = "target"
    /\ all_branches' = IF ListsBranches(repo_strategy)
                       THEN GetAllRepositoryBranches(remote_branches)
                       ELSE all_branches
    /\ target_branches' = GetTargetBranches(all_branches', repo_strategy)
    /\ pc' = "targeted"
    /\ UNCHANGED <<branch_strategy, repo_full_name, repo_strategy, cfg_strategy,
                   remote_branches>>
    /\ UNCHANGED <<dateVars, collectVars, mainVars>>

NextTarget == TargetBranchesStep

SpecTarget == InitTarget /\ [][NextTarget]_vars

(***************************************************************************)
(* Claims about target-branch resolution (SpecTarget).                     *)
(***************************************************************************)
ConfiguredBranches(strategy) ==
    IF "branches" \in DOMAIN strategy THEN strategy.branches ELSE <<>>

HasMode(strategy, m) == "mode" \in DOMAIN strategy /\ strategy.mode = m

\* indices of the configured branches that the repository has
MatchingIdx(strategy, branches) ==
    {i \in 1..Len(ConfiguredBranches(strategy)) :
        ConfiguredBranches(strategy)[i] \in Range(branches)}

SetMin(S) == CHOOSE x \in S : \A y \in S : x <= y

\* C1: with mode 'priority' the result is [] when no configured branch is in
\* the repository, else the one-element list of the configured branch of
\* smallest index that is in the repository; it depends on the repository's
\* branches only as a set, not on their order.
C1_PriorityFirstMatch ==
    (pc = "targeted" /\ HasMode(repo_strategy, "priority")) =>
        LET idx == MatchingIdx(repo_strategy, all_branches) IN
        IF idx = {} THEN target_branches = <<>>
        ELSE target_branches = <<ConfiguredBranches(repo_strategy)[SetMin(idx)]>>

\* the first configured branch is missing from the repository, the second one
\* is there, and the repository lists another branch before it
C1_Witness ==
    /\ pc = "targeted"
    /\ HasMode(repo_strategy, "priority")
    /\ ConfiguredBranches(repo_strategy) = <<"rel", "dev">>
    /\ all_branches = <<"main", "dev">>
    /\ target_branches = <<"dev">>

\* the k-th configured index whose branch the repository has
KthMatch(strategy, branches, k) ==
    CHOOSE i \in MatchingIdx(strategy, branches) :
        Cardinality({j \in MatchingIdx(strategy, branches) : j <= i}) = k

\* C2: with mode 'specific' the result is the configured list with exactly the
\* entries absent from the repository removed, in configured order; absent
\* entries are dropped and nothing fails.
C2_SpecificSubsequence ==
    (pc = "targeted" /\ HasMode(repo_strategy, "specific")) =>
        /\ Len(target_branches) = Cardinality(MatchingIdx(repo_strategy, all_branches))
        /\ \A k \in 1..Len(target_branches) :
              target_branches[k] =
                  ConfiguredBranches(repo_strategy)[KthMatch(repo_strategy, all_branches, k)]

\* the configured order differs from the repository's order
C2_Witness ==
    /\ pc = "targeted"
    /\ HasMode(repo_strategy, "specific")
    /\ ConfiguredBranches(repo_strategy) = <<"dev", "main">>
    /\ all_branches = <<"main", "rel", "dev">>
    /\ target_branches = <<"dev", "main">>

\* C15: with mode 'all' (the default when no mode is given)
\* _get_target_branches returns the branch names exactly as the remote
\* listing provided them, same elements in the same order, whatever the
\* configured branches are; a listing that raised provided nothing and the
\* result is empty.
C15_AllModeUnchanged ==
    (pc = "targeted" /\ Get(repo_strategy, "mode", "all") = "all")
        => /\ remote_branches.ok => target_branches = remote_branches.names
           /\ ~remote_branches.ok => target_branches = <<>>

C15_Witness ==
    /\ pc = "targeted"
    /\ HasMode(repo_strategy, "all")
    /\ ConfiguredBranches(repo_strategy) = <<"dev", "main">>
    /\ remote_branches.ok
    /\ remote_branches.names = <<"main", "rel", "dev">>
    /\ target_branches = <<"main", "rel", "dev">>

(***************************************************************************)
(* Override resolution: GitHubCommitTracker._get_repo_specific_strategy    *)
(* and ConfigParser.get_branch_strategy.                                   *)
(***************************************************************************)
EmptyDict == <<>>

\* faulty variant: an override without 'branches' inherits the default's branches
GetRepoSpecificStrategyMerged(name, strategy) ==
    LET overrides == Get(strategy, "overrides", EmptyDict) IN
    IF name \in DOMAIN overrides
    THEN [mode     |-> Get(overrides[name], "mode", Get(strategy, "mode", None)),
          branches |-> Get(overrides[name], "branches", Get(strategy, "branches", <<>>))]
    ELSE [mode     |-> Get(strategy, "mode", None),
          branches |-> Get(strategy, "branches", <<>>)]

GetRepoSpecificStrategy(name, strategy) ==
    LET overrides == Get(strategy, "overrides", EmptyDict) IN
    IF name \in DOMAIN overrides
    THEN overrides[name]
    ELSE [mode     |-> Get(strategy, "mode", None),
          branches |-> Get(strategy, "branches", <<>>)]

\* ConfigParser.get_branch_strategy(repo_full_name); config is
\* self.config['branch_strategy'], and 'not repo_full_name' holds of None and ''
GetBranchStrategy(name, config) ==
    IF name = None \/ name = "" THEN config
    ELSE LET overrides == Get(config, "overrides", EmptyDict) IN
         IF name \in DOMAIN overrides
         THEN overrides[name]
         ELSE [mode     |-> Get(config, "mode", None),
               branches |-> Get(config, "branches", <<>>)]

SampleBranchLists == {<<"main">>, <<"dev", "main">>, <<"main", "main">>}

\* strategies a configuration file may hold, as default or as override entry
StrategySamples ==
    {[mode |-> m] : m \in Modes}
        \cup {[mode |-> m, branches |-> b] : m \in Modes, b \in SampleBranchLists}

OverrideKeys == {"acme/a", "acme/b"}
RepoNames    == {"acme/a", "acme/b", "beta/c"}

OverrideTables == UNION {[K -> StrategySamples] : K \in SUBSET OverrideKeys}

\* config['branch_strategy']: the default's keys, with or without 'overrides'
BranchStrategyConfigs ==
    StrategySamples
        \cup {d @@ [overrides |-> t] : d \in StrategySamples, t \in OverrideTables}

InitStrategy ==
    /\ pc = "strategy"
    /\ branch_strategy \in BranchStrategyConfigs
    /\ repo_full_name \in RepoNames \cup {None, ""}
    /\ repo_strategy = [mode |-> None]
    /\ cfg_strategy = [mode |-> None]
    /\ remote_branches = [ok |-> FALSE, names |-> <<>>]
    /\ all_branches = <<>>
    /\ target_branches = <<>>
    /\ DateIdle
    /\ CollectIdle
    /\ MainIdle

GetRepoSpecificStrategyStep ==
    /\ pc = "strategy"
    /\ repo_strategy' = GetRepoSpecificStrategy(repo_full_name, branch_strategy)
    /\ pc' = "strategy_client"
    /\ UNCHANGED <<branch_strategy, repo_full_name, cfg_strategy, remote_branches,
                   all_branches, target_branches>>
    /\ UNCHANGED <<dateVars, collectVars, mainVars>>

GetBranchStrategyStep ==
    /\ pc = "strategy_client"
    /\ cfg_strategy' = GetBranchStrategy(repo_full_name, branch_strategy)
    /\ pc' = "strategy_done"
    /\ UNCHANGED <<branch_strategy, repo_full_name, repo_strategy, remote_branches,
                   all_branches, target_branches>>
    /\ UNCHANGED <<dateVars, collectVars, mainVars>>

NextStrategy == GetRepoSpecificStrategyStep \/ GetBranchStrategyStep

SpecStrategy == InitStrategy /\ [][NextStrategy]_vars

(***************************************************************************)
(* Claims about override resolution (SpecStrategy).                        *)
(***************************************************************************)
IsOverridden(name, config) ==
    "overrides" \in DOMAIN config /\ name \in DOMAIN config.overrides

DefaultOnly(config) ==
    [mode     |-> IF "mode" \in DOMAIN config THEN config.mode ELSE None,
     branches |-> ConfiguredBranches(config)]

\* C3: for a repository named in overrides the effective strategy is the
\* override entry itself, key for key; for any other repository it is the
\* record of the default's mode and branches and has no other key.  Both
\* resolvers (collector and configuration parser) agree on this.
C3_OverrideReplacesDefault ==
    (pc = "strategy_done" /\ repo_full_name \in RepoNames) =>
        /\ IsOverridden(repo_full_name, branch_strategy) =>
              /\ repo_strategy = branch_strategy.overrides[repo_full_name]
              /\ cfg_strategy = branch_strategy.overrides[repo_full_name]
        /\ ~IsOverridden(repo_full_name, branch_strategy) =>
              /\ repo_strategy = DefaultOnly(branch_strategy)
              /\ cfg_strategy = DefaultOnly(branch_strategy)
              /\ DOMAIN repo_strategy = {"mode", "branches"}
              /\ DOMAIN cfg_strategy = {"mode", "branches"}

\* an override that names no branches, over a default that does: the result
\* has no branches from the default
C3_Witness ==
    /\ pc = "strategy_done"
    /\ repo_full_name = "acme/a"
    /\ IsOverridden("acme/a", branch_strategy)
    /\ branch_strategy.overrides["acme/a"] = [mode |-> "all"]
    /\ branch_strategy.mode = "specific"
    /\ ConfiguredBranches(branch_strategy) = <<"dev", "main">>
    /\ repo_strategy = [mode |-> "all"]
    /\ cfg_strategy = [mode |-> "all"]

(***************************************************************************)
(* Date-range resolution: ConfigParser.get_date_range and                  *)
(* ConfigParser._get_start_date_with_weekend_check.                        *)
(*                                                                         *)
(* A datetime is [ord, minute]: the proleptic Gregorian ordinal of its     *)
(* date (date.toordinal()) and the minute of its day.  Date strings are    *)
(* strings.  In the operator's answer "@" and "#" stand for the two        *)
(* Korean affirmatives of the source, which are one character each.        *)
(***************************************************************************)
FirstDay     == 739045    \* 2024-06-08, a Saturday: first 'yesterday' drawn
NumDays      == 14        \* number of consecutive 'yesterday's drawn
MaxAnswerLen == 3         \* longest generated answer line

Saturday == 5
Sunday   == 6
Friday   == 4

\* datetime.weekday(): Monday is 0; ordinal 1 (0001-01-01) is a Monday
Weekday(dt) == (dt.ord + 6) % 7

\* dt - timedelta(days=1)
MinusOneDay(dt) == [ord |-> dt.ord - 1, minute |-> dt.minute]

Pad2(n) == IF n < 10 THEN "0" \o ToString(n) ELSE ToString(n)

\* dt.strftime('%Y-%m-%d'): the civil date of the ordinal, the time dropped
StrfDate(dt) ==
    LET z   == dt.ord - 1 + 306
        era == z \div 146097
        doe == z - era * 146097
        yoe == (doe - doe \div 1460 + doe \div 36524 - doe \div 146096) \div 365
        doy == doe - (365 * yoe + yoe \div 4 - yoe \div 100)
        mp  == (5 * doy + 2) \div 153
        d   == doy - (153 * mp + 2) \div 5 + 1
        m   == IF mp < 10 THEN mp + 3 ELSE mp - 9
        y   == yoe + era * 400 + (IF m <= 2 THEN 1 ELSE 0)
    IN  ToString(y) \o "-" \o Pad2(m) \o "-" \o Pad2(d)

\* faulty variant: the walk back stops at the first day that is not a Sunday
RECURSIVE MostRecentFridaySkipSunday(_)
MostRecentFridaySkipSunday(dt) ==
    IF Weekday(dt) = Sunday THEN MostRecentFridaySkipSunday(MinusOneDay(dt)) ELSE dt

\* while friday.weekday() != 4: friday = friday - timedelta(days=1)
RECURSIVE MostRecentFriday(_)
MostRecentFriday(dt) ==
    IF Weekday(dt) # Friday THEN MostRecentFriday(MinusOneDay(dt)) ELSE dt

Whitespace == {" ", "\t"}

\* str.strip()
RECURSIVE LStrip(_)
LStrip(str) ==
    IF Len(str) > 0 /\ Head(str) \in Whitespace THEN LStrip(Tail(str)) ELSE str

RECURSIVE RStrip(_)
RStrip(str) ==
    IF Len(str) > 0 /\ SubSeq(str, Len(str), Len(str)) \in Whitespace
    THEN RStrip(SubSeq(str, 1, Len(str) - 1))
    ELSE str

Strip(str) == RStrip(LStrip(str))

\* str.lower(), on the letters an answer is drawn from
LowerChar(c) ==
    IF c = "Y" THEN "y" ELSE IF c = "E" THEN "e" ELSE IF c = "S" THEN "s"
    ELSE IF c = "N" THEN "n" ELSE IF c = "O" THEN "o" ELSE c

RECURSIVE Lower(_)
Lower(str) ==
    IF Len(str) = 0 THEN "" ELSE LowerChar(Head(str)) \o Lower(Tail(str))

\* faulty variant: the answer is trimmed but its case is kept
NormalizeResponseKeepCase(line) == Strip(line)

\* input(...).strip().lower()
NormalizeResponse(line) == Lower(Strip(line))

AffirmativeTokens == {"y", "yes", "@", "#"}

\* yesterday.weekday() in [5, 6]
IsWeekend(dt) == Weekday(dt) \in {Saturday, Sunday}

\* the weekend branch of _get_start_date_with_weekend_check once the answer
\* (if any) is in: friday on dry-run or on an affirmative answer
WeekendChoice(yday, dry, line) ==
    IF dry THEN StrfDate(MostRecentFriday(yday))
    ELSE IF NormalizeResponse(line) \in AffirmativeTokens
         THEN StrfDate(MostRecentFriday(yday))
         ELSE StrfDate(yday)

\* 'not x' for a value of the date_range dict
Falsy(x) == x = None \/ x = ""

\* faulty variant: the default is computed only when both bounds are empty
NeedsDefaultBothEmpty(from_date, to) == Falsy(from_date) /\ Falsy(to)

\* the two tests of get_date_range that lead to the default computation:
\* 'not from_date and not to_date', then 'not from_date'
NeedsDefault(from_date, to) == (Falsy(from_date) /\ Falsy(to)) \/ Falsy(from_date)

\* 'to' of the returned dict: None in the both-empty branch, else
\* 'to_date if to_date else None'
ResultTo(from_date, to) ==
    IF Falsy(from_date) /\ Falsy(to) THEN None
    ELSE IF Falsy(to) THEN None ELSE to

\* 'from' of the returned dict when no default is computed
ResultFromExplicit(from_date) == IF Falsy(from_date) THEN None ELSE from_date

(***************************************************************************)
(* Inputs of date-range resolution.                                        *)
(***************************************************************************)
DateStrings == {"2024-06-03", "2024-06-05 09:30"}

DateRangeDicts ==
    LET vals == DateStrings \cup {None, ""} IN
    {EmptyDict}
        \cup {[from |-> f] : f \in vals}
        \cup {[to |-> t] : t \in vals}
        \cup {[from |-> f, to |-> t] : f \in vals, t \in vals}

Clocks ==
    {[ord |-> o, minute |-> mi] : o \in (FirstDay + 1)..(FirstDay + NumDays),
                                  mi \in {0, 1439}}

AnswerChars == {" ", "y", "Y", "n"}

RECURSIVE StringsUpTo(_, _)
StringsUpTo(chars, n) ==
    IF n = 0 THEN {""}
    ELSE LET shorter == StringsUpTo(chars, n - 1) IN
         shorter \cup {str \o c : str \in shorter, c \in chars}

Answers ==
    StringsUpTo(AnswerChars, MaxAnswerLen)
        \cup {"yes", "YES", " Yes\t", "yes!", "ye", "no", "@", "#", " # ", "y es"}

InitDate ==
    /\ pc = "date"
    /\ config_date_range \in DateRangeDicts
    /\ dry_run \in BOOLEAN
    /\ clock \in Clocks
    /\ clock_reads = 0
    /\ yesterday = [ord |-> 0, minute |-> 0]
    /\ to_date = None
    /\ prompts = 0
    /\ answer = None
    /\ date_range = [from |-> None, to |-> None]
    /\ ResolveIdle
    /\ CollectIdle
    /\ MainIdle

\* get_date_range(dry_run) up to its return or, when yesterday is a weekend
\* day of an interactive run, up to the blocking input() call
GetDateRangeStep ==
    /\ pc = "date"
    /\ LET from_date == Get(config_date_range, "from", None)
           to        == Get(config_date_range, "to", None)
           yday      == MinusOneDay(clock)
       IN  IF NeedsDefault(from_date, to)
           THEN /\ clock_reads' = clock_reads + 1
                /\ yesterday' = yday
                /\ to_date' = ResultTo(from_date, to)
                /\ IF IsWeekend(yday)
                   THEN IF dry_run
                        THEN /\ date_range' = [from |-> WeekendChoice(yday, dry_run, ""),
                                               to   |-> ResultTo(from_date, to)]
                             /\ pc' = "date_done"
                             /\ UNCHANGED prompts
                        ELSE /\ prompts' = prompts + 1
                             /\ pc' = "date_prompt"
                             /\ UNCHANGED date_range
                   ELSE /\ date_range' = [from |-> StrfDate(yday),
                                          to   |-> ResultTo(from_date, to)]
                        /\ pc' = "date_done"
                        /\ UNCHANGED prompts
           ELSE /\ date_range' = [from |-> ResultFromExplicit(from_date),
                                  to   |-> ResultTo(from_date, to)]
                /\ pc' = "date_done"
                /\ UNCHANGED <<clock_reads, yesterday, to_date, prompts>>
    /\ UNCHANGED <<config_date_range, dry_run, clock, answer>>
    /\ UNCHANGED <<resolveVars, collectVars, mainVars>>

\* the operator answers the prompt; get_date_range returns
PromptAnswerStep ==
    /\ pc = "date_prompt"
    /\ \E line \in Answers :
          /\ answer' = line
          /\ date_range' = [from |-> WeekendChoice(yesterday, dry_run, line),
                            to   |-> to_date]
    /\ pc' = "date_done"
    /\ UNCHANGED <<config_date_range, dry_run, clock, clock_reads, yesterday, to_date,
                   prompts>>
    /\ UNCHANGED <<resolveVars, collectVars, mainVars>>

NextDate == GetDateRangeStep \/ PromptAnswerStep

SpecDate == InitDate /\ [][NextDate]_vars

(***************************************************************************)
(* Claims about date-range resolution (SpecDate).                          *)
(***************************************************************************)
\* an explicit bound is absent when its key is missing, null or empty
FromAbsent == Falsy(IF "from" \in DOMAIN config_date_range THEN config_date_range.from ELSE None)
ToAbsent   == Falsy(IF "to" \in DOMAIN config_date_range THEN config_date_range.to ELSE None)

\* 'yesterday' as the clock gives it, and the Friday on or before it
ClockYesterday == [ord |-> clock.ord - 1, minute |-> clock.minute]

DaysBack(dt, n) == [ord |-> dt.ord - n, minute |-> dt.minute]

\* C4: on a dry run the default from-date is yesterday for Monday..Friday,
\* the day before for a Saturday and two days before for a Sunday (a Friday
\* in both cases), and the operator is never prompted.
C4_DryRunWeekendDefault ==
    /\ dry_run => (pc # "date_prompt" /\ prompts = 0 /\ answer = None)
    /\ (pc = "date_done" /\ dry_run /\ FromAbsent) =>
          LET wd == Weekday(ClockYesterday) IN
          /\ wd = Saturday => /\ date_range.from = StrfDate(DaysBack(ClockYesterday, 1))
                              /\ Weekday(DaysBack(ClockYesterday, 1)) = Friday
          /\ wd = Sunday   => /\ date_range.from = StrfDate(DaysBack(ClockYesterday, 2))
                              /\ Weekday(DaysBack(ClockYesterday, 2)) = Friday
          /\ wd \notin {Saturday, Sunday} => date_range.from = StrfDate(ClockYesterday)

\* yesterday is Saturday 2024-06-15 and the dry run starts at Friday 2024-06-14
C4_Witness ==
    /\ pc = "date_done"
    /\ dry_run
    /\ FromAbsent
    /\ StrfDate(ClockYesterday) = "2024-06-15"
    /\ Weekday(ClockYesterday) = Saturday
    /\ date_range.from = "2024-06-14"

AllWhitespace(str) == \A i \in 1..Len(str) : SubSeq(str, i, i) \in Whitespace

\* the line is an affirmative token in any letter case, surrounded by nothing
\* but whitespace
IsAffirmative(line) ==
    \E i \in 1..Len(line) : \E j \in i..Len(line) :
        /\ AllWhitespace(SubSeq(line, 1, i - 1))
        /\ AllWhitespace(SubSeq(line, j + 1, Len(line)))
        /\ Lower(SubSeq(line, i, j)) \in {"y", "yes", "@", "#"}

\* C5: on an interactive run with yesterday a Saturday or Sunday the operator
\* is prompted exactly once; the default from-date is the preceding Friday
\* exactly when the answer, trimmed and lower-cased, is an affirmative token,
\* and yesterday for any other answer (the empty one included).  With
\* yesterday a weekday there is no prompt and the default is yesterday.
C5_InteractivePrompt ==
    /\ prompts <= 1
    /\ pc = "date_prompt" => (~dry_run /\ prompts = 1 /\ IsWeekend(ClockYesterday))
    /\ (pc = "date_done" /\ ~dry_run /\ FromAbsent) =>
          LET wd == Weekday(ClockYesterday) IN
          IF wd \in {Saturday, Sunday}
          THEN /\ prompts = 1
               /\ answer \in Answers
               /\ date_range.from =
                     IF IsAffirmative(answer)
                     THEN StrfDate(DaysBack(ClockYesterday, wd - Friday))
                     ELSE StrfDate(ClockYesterday)
               /\ StrfDate(DaysBack(ClockYesterday, wd - Friday)) # StrfDate(ClockYesterday)
          ELSE /\ prompts = 0
               /\ answer = None
               /\ date_range.from = StrfDate(ClockYesterday)

\* yesterday is Sunday 2024-06-16, the operator types " Yes<tab>"
C5_Witness ==
    /\ pc = "date_done"
    /\ ~dry_run
    /\ FromAbsent
    /\ StrfDate(ClockYesterday) = "2024-06-16"
    /\ prompts = 1
    /\ answer = " Yes\t"
    /\ date_range.from = "2024-06-14"

\* the default from-date of the run, from the clock, the mode and the answer
ExpectedDefault ==
    LET wd == Weekday(ClockYesterday) IN
    IF wd \in {Saturday, Sunday} /\ (dry_run \/ IsAffirmative(answer))
    THEN StrfDate(DaysBack(ClockYesterday, wd - Friday))
    ELSE StrfDate(ClockYesterday)

\* C6: 'to' is its explicit value, or unset when absent; 'from' is its
\* explicit value when present and the weekend-adjusted yesterday when absent,
\* whether or not 'to' is given.  The clock is read (once) exactly when 'from'
\* is absent, and a prompt is issued only then.
C6_DateRangeResolution ==
    /\ clock_reads = (IF pc # "date" /\ FromAbsent THEN 1 ELSE 0)
    /\ prompts > 0 => FromAbsent
    /\ pc = "date_done" =>
          /\ date_range.to = (IF ToAbsent THEN None ELSE config_date_range.to)
          /\ ~FromAbsent => date_range.from = config_date_range.from
          /\ FromAbsent => date_range.from = ExpectedDefault

\* only 'to' is given: the default from-date is computed and 'to' is kept
C6_Witness ==
    /\ pc = "date_done"
    /\ DOMAIN config_date_range = {"to"}
    /\ config_date_range.to = "2024-06-05 09:30"
    /\ clock_reads = 1
    /\ StrfDate(ClockYesterday) = "2024-06-12"
    /\ date_range = [from |-> "2024-06-12", to |-> "2024-06-05 09:30"]

(***************************************************************************)
(* GitHubCommitTracker.get_commits_from_branch.                            *)
(*                                                                         *)
(* A remote commit is [sha, login, date]; login is None when the commit    *)
(* has no resolvable author (commit.author is None).  repo.get_commits()   *)
(* is a lazy paginated list: it yields commits one by one and may raise    *)
(* GithubException before any of them or between two of them.              *)
(* raises_after = k >= 0 says it raises after yielding k commits, -1 that  *)
(* it yields them all.                                                     *)
(***************************************************************************)
MaxCommits == 3          \* longest commit stream of one branch

Logins == {"alice", "Alice", "bob"}

\* faulty variant: only the first configured username counts
IsUserCommitFirstOnly(commit, names) ==
    IF commit.login = None THEN FALSE
    ELSE Len(names) > 0 /\ names[1] = commit.login

\* _is_user_commit
IsUserCommit(commit, names) ==
    IF commit.login = None THEN FALSE
    ELSE IF Contains(names, commit.login) THEN TRUE
    ELSE FALSE

\* _extract_commit_data: the fields the rest of the run reads
ExtractCommitData(commit, repo_name, branch_name) ==
    [sha |-> commit.sha, repository |-> repo_name, branch |-> branch_name,
     date |-> commit.date]

\* the commits the iteration hands to the loop body before it ends or raises
Yielded(response) ==
    IF response.raises_after < 0 THEN response.commits
    ELSE SubSeq(response.commits, 1, response.raises_after)

\* get_commits_from_branch: every yielded commit that passes _is_user_commit,
\* extracted and appended; an exception ends the loop and the list built so
\* far is returned
RECURSIVE CollectUserCommits(_, _, _, _)
CollectUserCommits(commits, repo_name, branch_name, names) ==
    IF commits = <<>> THEN <<>>
    ELSE IF IsUserCommit(Head(commits), names)
         THEN <<ExtractCommitData(Head(commits), repo_name, branch_name)>>
                  \o CollectUserCommits(Tail(commits), repo_name, branch_name, names)
         ELSE CollectUserCommits(Tail(commits), repo_name, branch_name, names)

GetCommitsFromBranch(response, repo_name, branch_name, names) ==
    CollectUserCommits(Yielded(response), repo_name, branch_name, names)

\* a stream of commits by the given authors, newest first
StreamOf(authors, repo_name, branch_name) ==
    [i \in 1..Len(authors) |->
        [sha   |-> <<repo_name, branch_name, i>>,
         login |-> authors[i],
         date  |-> Len(authors) - i]]

CommitResponses ==
    {[commits |-> StreamOf(a, "acme/a", "main"), raises_after |-> k] :
        a \in SeqsUpTo(Logins \cup {None}, MaxCommits), k \in -1..(MaxCommits - 1)}

UsernameLists == {<<"alice">>, <<"bob">>, <<"bob", "alice">>, <<"alice", "alice">>}

InitFetch ==
    /\ pc = "fetch"
    /\ usernames \in UsernameLists
    /\ remote_commits \in {r \in CommitResponses : r.raises_after < Len(r.commits)
                                                   \/ r.raises_after = 0}
    /\ repo_full_name \in {"acme/a"}
    /\ organizations = <<>>
    /\ failing = NoFailure
    /\ org_idx = 0
    /\ repositories = <<>>
    /\ repo_idx = 0
    /\ branch_idx = 0
    /\ branch_commits = <<>>
    /\ all_commits = <<>>
    /\ fetch_log = <<>>
    /\ remote_calls = 0
    /\ MainIdle
    /\ branch_strategy = [mode |-> "all"]
    /\ repo_strategy = [mode |-> None]
    /\ cfg_strategy = [mode |-> None]
    /\ remote_branches = [ok |-> FALSE, names |-> <<>>]
    /\ all_branches = <<>>
    /\ target_branches = <<"main">>
    /\ DateIdle

\* get_commits_from_branch(repo, target_branches[1])
GetCommitsFromBranchStep ==
    /\ pc = "fetch"
    /\ branch_commits' = GetCommitsFromBranch(remote_commits, repo_full_name,
                                              target_branches[1], usernames)
    /\ fetch_log' = Append(fetch_log, <<repo_full_name, target_branches[1]>>)
    /\ remote_calls' = remote_calls + 1
    /\ pc' = "fetched"
    /\ UNCHANGED <<usernames, organizations, failing, org_idx, repositories, repo_idx,
                   branch_idx, remote_commits, all_commits>>
    /\ UNCHANGED <<resolveVars, dateVars, mainVars>>

NextFetch == GetCommitsFromBranchStep

SpecFetch == InitFetch /\ [][NextFetch]_vars

(***************************************************************************)
(* Claims about one branch fetch (SpecFetch).                              *)
(***************************************************************************)
\* positions of the yielded commits that have an author whose login is one of
\* the configured usernames
UserIdx(response, names) ==
    {i \in 1..Len(Yielded(response)) :
        /\ Yielded(response)[i].login # None
        /\ \E u \in Range(names) : u = Yielded(response)[i].login}

KthOf(S, k) == CHOOSE i \in S : Cardinality({j \in S : j <= i}) = k

\* C7: the records a branch fetch returns are exactly the commits the remote
\* source yielded for the branch that have a resolvable author whose login
\* equals one of the usernames, once each and in the order yielded; a commit
\* without author or by another login (a different letter case included) is
\* not among them.
C7_FetchFiltersByAuthor ==
    pc = "fetched" =>
        LET keep == UserIdx(remote_commits, usernames) IN
        /\ Len(branch_commits) = Cardinality(keep)
        /\ \A k \in 1..Len(branch_commits) :
              /\ branch_commits[k].sha = Yielded(remote_commits)[KthOf(keep, k)].sha
              /\ branch_commits[k].repository = repo_full_name
              /\ branch_commits[k].branch = target_branches[1]
        /\ \A c \in Range(Yielded(remote_commits)) :
              (c.login = None \/ c.login \notin Range(usernames)) =>
                  \A k \in 1..Len(branch_commits) : branch_commits[k].sha # c.sha

\* a commit by "Alice", one without author and one by "alice", fetched for
\* the usernames bob and alice: only the third is returned
C7_Witness ==
    /\ pc = "fetched"
    /\ usernames = <<"bob", "alice">>
    /\ remote_commits.raises_after = -1
    /\ Len(remote_commits.commits) = 3
    /\ remote_commits.commits[1].login = "Alice"
    /\ remote_commits.commits[2].login = None
    /\ remote_commits.commits[3].login = "alice"
    /\ Len(branch_commits) = 1
    /\ branch_commits[1].sha = remote_commits.commits[3].sha

(***************************************************************************)
(* Configuration validation of a branch strategy (ConfigParser.            *)
(* _validate_config): the collector only ever runs on a configuration      *)
(* that passed it.                                                         *)
(***************************************************************************)
\* faulty variant: only the mode is validated
ValidStrategyModeOnly(strategy) == Get(strategy, "mode", None) \in Modes

\* mode in ['all', 'specific', 'priority'], and a non-empty 'branches' list
\* when the mode is specific or priority
ValidStrategy(strategy) ==
    /\ Get(strategy, "mode", None) \in Modes
    /\ Get(strategy, "mode", None) \in {"specific", "priority"} =>
          Get(strategy, "branches", <<>>) # <<>>

\* '/' in repo_name
HasSlash(name) == \E i \in 1..Len(name) : SubSeq(name, i, i) = "/"

ValidBranchStrategy(config) ==
    /\ ValidStrategy(config)
    /\ \A name \in DOMAIN Get(config, "overrides", EmptyDict) :
          /\ HasSlash(name)
          /\ ValidStrategy(config.overrides[name])

(***************************************************************************)
(* The remote source of a collection run.                                  *)
(***************************************************************************)
MaxOrgs == 2             \* longest configured organizations list

OrgNames == {"acme", "beta"}

\* org.get_repos(), by full name
RemoteRepos(org_name) ==
    IF org_name = "acme" THEN <<"acme/a", "acme/b">>
    ELSE IF org_name = "beta" THEN <<"beta/c">>
    ELSE <<>>

\* repo.get_branches()
RemoteBranches(repo_name) ==
    IF repo_name = "acme/a" THEN <<"main", "dev">>
    ELSE IF repo_name = "acme/b" THEN <<"dev">>
    ELSE <<"dev", "main", "rel">>

\* the author logins of a branch's commits, newest first
RemoteAuthors(branch_name) ==
    IF branch_name = "main" THEN <<"alice", None, "bob">>
    ELSE IF branch_name = "dev" THEN <<"Alice", "alice">>
    ELSE <<>>

RemoteCommits(repo_name, branch_name) ==
    StreamOf(RemoteAuthors(branch_name), repo_name, branch_name)

\* the one remote call of a run that raises GithubException, if any
Failures ==
    {NoFailure}
        \cup {[kind |-> "org", org |-> o, repo |-> None, branch |-> None, after |-> 0] :
                 o \in OrgNames}
        \cup {[kind |-> "repo", org |-> None, repo |-> r, branch |-> None, after |-> 0] :
                 r \in RepoNames}
        \cup {f \in [kind : {"branch"}, org : {None}, repo : RepoNames,
                     branch : BranchNames, after : 0..(MaxCommits - 1)] :
                 /\ f.branch \in Range(RemoteBranches(f.repo))
                 /\ f.after = 0 \/ f.after < Len(RemoteCommits(f.repo, f.branch))}

OrgResponse(org_name, failure) ==
    [ok    |-> ~(failure.kind = "org" /\ failure.org = org_name),
     names |-> RemoteRepos(org_name)]

BranchesResponse(repo_name, failure) ==
    [ok    |-> ~(failure.kind = "repo" /\ failure.repo = repo_name),
     names |-> RemoteBranches(repo_name)]

CommitsResponse(repo_name, branch_name, failure) ==
    [commits      |-> RemoteCommits(repo_name, branch_name),
     raises_after |-> IF /\ failure.kind = "branch"
                         /\ failure.repo = repo_name
                         /\ failure.branch = branch_name
                      THEN failure.after
                      ELSE -1]

(***************************************************************************)
(* GitHubCommitTracker.get_commits_from_organizations                      *)
(***************************************************************************)
\* get_organization_repositories: the listing, or [] on GithubException
GetOrganizationRepositories(response) ==
    IF response.ok THEN response.names ELSE <<>>

\* faulty variant: the new commits are put in front of the result
ExtendFront(commits, more) == more \o commits

\* all_commits.extend(branch_commits)
Extend(commits, more) == commits \o more

CollectOverrides ==
    {[mode |-> "all"], [mode |-> "priority", branches |-> <<"dev", "main">>]}

\* the validated branch strategies a collection run is started with
CollectConfigs ==
    {c \in StrategySamples
            \cup {d @@ [overrides |-> t] : d \in StrategySamples,
                                           t \in [{"acme/b"} -> CollectOverrides]} :
        ValidBranchStrategy(c)}

InitCollect ==
    /\ pc = "collect_org"
    /\ usernames \in {<<"alice">>, <<"bob", "alice">>}
    /\ organizations \in SeqsUpTo(OrgNames, MaxOrgs) \ {<<>>}
    /\ branch_strategy \in CollectConfigs
    /\ failing \in Failures
    /\ org_idx = 1
    /\ repositories = <<>>
    /\ repo_idx = 0
    /\ branch_idx = 0
    /\ remote_commits = [commits |-> <<>>, raises_after |-> -1]
    /\ branch_commits = <<>>
    /\ all_commits = <<>>
    /\ fetch_log = <<>>
    /\ remote_calls = 0
    /\ MainIdle
    /\ repo_full_name = None
    /\ repo_strategy = [mode |-> None]
    /\ cfg_strategy = [mode |-> None]
    /\ remote_branches = [ok |-> FALSE, names |-> <<>>]
    /\ all_branches = <<>>
    /\ target_branches = <<>>
    /\ DateIdle

\* for org_name in organizations: repositories = get_organization_repositories
\* (org_name); after the last organization, return all_commits
ProcessOrganization ==
    /\ pc = "collect_org"
    /\ IF org_idx <= Len(organizations)
       THEN /\ repositories' = GetOrganizationRepositories(
                                   OrgResponse(organizations[org_idx], failing))
            /\ repo_idx' = 1
            /\ remote_calls' = remote_calls + 1
            /\ pc' = "collect_repo"
       ELSE /\ pc' = "collect_done"
            /\ UNCHANGED <<repositories, repo_idx, remote_calls>>
    /\ UNCHANGED <<usernames, organizations, failing, org_idx, branch_idx,
                   remote_commits, branch_commits, all_commits, fetch_log>>
    /\ UNCHANGED <<resolveVars, dateVars, mainVars>>

\* for repo in repositories: the repository's strategy and target branches
ProcessRepository ==
    /\ pc = "collect_repo"
    /\ IF repo_idx <= Len(repositories)
       THEN /\ repo_full_name' = repositories[repo_idx]
            /\ repo_strategy' = GetRepoSpecificStrategy(repo_full_name', branch_strategy)
            /\ IF ListsBranches(repo_strategy')
               THEN /\ remote_branches' = BranchesResponse(repo_full_name', failing)
                    /\ all_branches' = GetAllRepositoryBranches(remote_branches')
                    /\ remote_calls' = remote_calls + 1
               ELSE UNCHANGED <<remote_branches, all_branches, remote_calls>>
            /\ target_branches' = GetTargetBranches(all_branches', repo_strategy')
            /\ branch_idx' = 1
            /\ pc' = "collect_branch"
            /\ UNCHANGED org_idx
       ELSE /\ org_idx' = org_idx + 1
            /\ pc' = "collect_org"
            /\ UNCHANGED <<repo_full_name, repo_strategy, remote_branches, all_branches,
                           target_branches, branch_idx, remote_calls>>
    /\ UNCHANGED <<usernames, organizations, failing, repositories, repo_idx,
                   remote_commits, branch_commits, all_commits, fetch_log>>
    /\ UNCHANGED <<branch_strategy, cfg_strategy, dateVars, mainVars>>

\* for branch in target_branches: fetch the branch and extend the result
ProcessBranch ==
    /\ pc = "collect_branch"
    /\ IF branch_idx <= Len(target_branches)
       THEN /\ remote_commits' = CommitsResponse(repo_full_name,
                                                 target_branches[branch_idx], failing)
            /\ branch_commits' = GetCommitsFromBranch(remote_commits', repo_full_name,
                                                      target_branches[branch_idx], usernames)
            /\ all_commits' = Extend(all_commits, branch_commits')
            /\ fetch_log' = Append(fetch_log, <<repo_full_name, target_branches[branch_idx]>>)
            /\ branch_idx' = branch_idx + 1
            /\ remote_calls' = remote_calls + 1
            /\ UNCHANGED <<repo_idx, pc>>
       ELSE /\ repo_idx' = repo_idx + 1
            /\ pc' = "collect_repo"
            /\ UNCHANGED <<remote_commits, branch_commits, all_commits, fetch_log,
                           branch_idx, remote_calls>>
    /\ UNCHANGED <<usernames, organizations, failing, org_idx, repositories>>
    /\ UNCHANGED <<resolveVars, dateVars, mainVars>>

NextCollect == ProcessOrganization \/ ProcessRepository \/ ProcessBranch

SpecCollect == InitCollect /\ [][NextCollect]_vars

(***************************************************************************)
(* Claims about a collection run (SpecCollect).                            *)
(***************************************************************************)
\* The run's result written as nested concatenations: organizations in
\* configured order, repositories in listing order, branches in the order of
\* target-branch resolution, commits in the order the remote yields them.
\* fetch(repo, branch) is what one branch contributes.
RECURSIVE ConcatBranches(_, _, _)
ConcatBranches(fetch(_, _), repo_name, branches) ==
    IF branches = <<>> THEN <<>>
    ELSE fetch(repo_name, Head(branches))
             \o ConcatBranches(fetch, repo_name, Tail(branches))

TargetsOf(repo_name) ==
    GetTargetBranches(GetAllRepositoryBranches(BranchesResponse(repo_name, failing)),
                      GetRepoSpecificStrategy(repo_name, branch_strategy))

RECURSIVE ConcatRepos(_, _)
ConcatRepos(fetch(_, _), repos) ==
    IF repos = <<>> THEN <<>>
    ELSE ConcatBranches(fetch, Head(repos), TargetsOf(Head(repos)))
             \o ConcatRepos(fetch, Tail(repos))

RECURSIVE ConcatOrgs(_, _)
ConcatOrgs(fetch(_, _), orgs) ==
    IF orgs = <<>> THEN <<>>
    ELSE ConcatRepos(fetch, GetOrganizationRepositories(OrgResponse(Head(orgs), failing)))
             \o ConcatOrgs(fetch, Tail(orgs))

\* the matching commits the remote yielded for the branch in this run
FetchedOf(repo_name, branch_name) ==
    GetCommitsFromBranch(CommitsResponse(repo_name, branch_name, failing),
                         repo_name, branch_name, usernames)

\* the matching commits of the branch, or nothing when its fetch fails
AllOrNothingOf(repo_name, branch_name) ==
    IF CommitsResponse(repo_name, branch_name, failing).raises_after >= 0
    THEN <<>>
    ELSE GetCommitsFromBranch(CommitsResponse(repo_name, branch_name, NoFailure),
                              repo_name, branch_name, usernames)

\* C8: a failing organization, repository or branch call does not abort the
\* run; the failed unit contributes no commits and the result holds the
\* matching commits of every unit that did not fail.
C8_FailedUnitSkipped ==
    /\ pc \in {"collect_org", "collect_repo", "collect_branch", "collect_done"}
    /\ pc = "collect_done" => all_commits = ConcatOrgs(AllOrNothingOf, organizations)

NoRepeat(list) ==
    \A i \in 1..Len(list) : \A j \in 1..Len(list) : i # j => list[i] # list[j]

\* C9: in one run no (repository, branch) pair is fetched more than once and
\* no commit of a branch is in the result twice.
C9_EachBranchFetchedOnce ==
    /\ NoRepeat(fetch_log)
    /\ NoRepeat(all_commits)

IsPrefix(p, q) == Len(p) <= Len(q) /\ SubSeq(q, 1, Len(p)) = p

\* C10: the returned sequence is the concatenation, organization by
\* organization in configured order, repository by repository in listing
\* order, branch by branch in target order, of the matching commits in the
\* order the remote yielded them; and the result only ever grows at its end.
C10_CollectionOrder ==
    /\ [](pc = "collect_done" => all_commits = ConcatOrgs(FetchedOf, organizations))
    /\ [][IsPrefix(all_commits, all_commits')]_vars

\* two organizations in the order beta, acme with commits collected from
\* both: beta's commits come first although acme sorts first
C10_Witness ==
    /\ pc = "collect_done"
    /\ organizations = <<"beta", "acme">>
    /\ HasMode(branch_strategy, "specific")
    /\ ConfiguredBranches(branch_strategy) = <<"dev", "main">>
    /\ failing = NoFailure
    /\ Len(all_commits) >= 4
    /\ all_commits[1].repository = "beta/c"
    /\ all_commits[1].branch = "dev"
    /\ all_commits[2].branch = "main"
    /\ all_commits[Len(all_commits)].repository = "acme/b"

(***************************************************************************)
(* The sort stage: sort_commits (main.py).                                 *)
(***************************************************************************)
MaxSortLen == 4
MaxDate == 2

\* whether an element with key k goes after an earlier element with key l:
\* sorted() moves an element in front of another only when its key is
\* strictly smaller (strictly larger with reverse=True)
GoesAfter(k, l, reverse) == IF reverse THEN k <= l ELSE k >= l

\* the position commit takes in an already sorted list: behind every element
\* it goes after
RECURSIVE InsertByDate(_, _, _)
InsertByDate(commits, commit, reverse) ==
    IF commits = <<>> THEN <<commit>>
    ELSE IF GoesAfter(commit.date, commits[Len(commits)].date, reverse)
    THEN Append(commits, commit)
    ELSE Append(InsertByDate(SubSeq(commits, 1, Len(commits) - 1), commit, reverse),
                commits[Len(commits)])

\* faulty variant: a sort by date that puts the later of two commits with the
\* same date in front
SortedByDateUnstable(commits, reverse) ==
    LET n == Len(commits)
        InFront(j, i) ==
            \/ IF reverse THEN commits[j].date > commits[i].date
                          ELSE commits[j].date < commits[i].date
            \/ commits[j].date = commits[i].date /\ j > i
        Rank(i) == Cardinality({j \in 1..n : InFront(j, i)})
    IN  [p \in 1..n |-> commits[CHOOSE i \in 1..n : Rank(i) = p - 1]]

\* sorted(commits, key=lambda x: x['date'], reverse=reverse): a new list,
\* ordered by date, commits with equal dates in their original order
RECURSIVE SortedByDate(_, _)
SortedByDate(commits, reverse) ==
    IF commits = <<>> THEN <<>>
    ELSE InsertByDate(SortedByDate(SubSeq(commits, 1, Len(commits) - 1), reverse),
                      commits[Len(commits)], reverse)

\* sort_commits(commits, sort_order)
SortCommits(commits, order) ==
    LET reverse == Lower(order) = "desc" IN
    SortedByDate(commits, reverse)

SortOrders == {"asc", "desc"}

\* collected commits with dates that repeat
SortInputs ==
    UNION {{[i \in 1..n |-> [sha |-> <<"acme/a", "main", i>>, repository |-> "acme/a",
                            branch |-> "main", date |-> d[i]]] :
               d \in [1..n -> 0..MaxDate]} : n \in 0..MaxSortLen}

InitSort ==
    /\ pc = "sort"
    /\ all_commits \in SortInputs
    /\ sort_order \in SortOrders
    /\ sorted_commits = <<>>
    /\ config_file = [state |-> "ok", content |-> <<>>, scalars |-> {}]
    /\ load_error = None
    /\ self_from_date = NoDatetime
    /\ self_to_date = NoDatetime
    /\ exit_code = 0
    /\ stdout = <<>>
    /\ stderr = <<>>
    /\ usernames = <<>>
    /\ organizations = <<>>
    /\ failing = NoFailure
    /\ org_idx = 0
    /\ repositories = <<>>
    /\ repo_idx = 0
    /\ branch_idx = 0
    /\ remote_commits = [commits |-> <<>>, raises_after |-> -1]
    /\ branch_commits = <<>>
    /\ fetch_log = <<>>
    /\ remote_calls = 0
    /\ ResolveIdle
    /\ DateIdle

\* commits = sort_commits(commits, sort_order)
SortCommitsStep ==
    /\ pc = "sort"
    /\ sorted_commits' = SortCommits(all_commits, sort_order)
    /\ pc' = "sorted"
    /\ UNCHANGED <<config_file, load_error, self_from_date, self_to_date, exit_code,
                   stdout, stderr, sort_order>>
    /\ UNCHANGED <<resolveVars, dateVars, collectVars>>

NextSort == SortCommitsStep

SpecSort == InitSort /\ [][NextSort]_vars

(***************************************************************************)
(* Claims about the sort stage (SpecSort).                                 *)
(***************************************************************************)
\* the ways of reading `result` as a rearrangement of `commits`: result[i]
\* is commits[p[i]] and every position of commits is used once
Rearrangements(commits, result) ==
    {p \in [1..Len(result) -> 1..Len(commits)] :
        /\ \A i \in 1..Len(result) : result[i] = commits[p[i]]
        /\ \A i, j \in 1..Len(result) : p[i] = p[j] => i = j}

\* C16: the ascending sort applied before formatting returns a permutation
\* of the collected commits whose dates never decrease, and two commits
\* with equal dates keep the relative order they had in the collected
\* sequence.
C16_SortStableAscending ==
    (pc = "sorted" /\ sort_order = "asc")
        => /\ Len(sorted_commits) = Len(all_commits)
           /\ \A i \in 1..(Len(sorted_commits) - 1) :
                  sorted_commits[i].date <= sorted_commits[i + 1].date
           /\ \E p \in Rearrangements(all_commits, sorted_commits) :
                  \A i, j \in 1..Len(sorted_commits) :
                      (i < j /\ sorted_commits[i].date = sorted_commits[j].date)
                          => p[i] < p[j]

C16_Witness ==
    /\ pc = "sorted"
    /\ sort_order = "asc"
    /\ Len(all_commits) = 4
    /\ all_commits[1].date = 2
    /\ all_commits[2].date = 1
    /\ all_commits[3].date = 2
    /\ all_commits[4].date = 1
    /\ sorted_commits = <<all_commits[2], all_commits[4], all_commits[1], all_commits[3]>>

(***************************************************************************)
(* Date strings: datetime.strptime with the two formats the program uses.  *)
(***************************************************************************)
Digits == {"0", "1", "2", "3", "4", "5", "6", "7", "8", "9"}

CharAt(str, i) == SubSeq(str, i, i)

IsDigits(str) == \A i \in 1..Len(str) : CharAt(str, i) \in Digits

DigitValue(c) ==
    CASE c = "0" -> 0 [] c = "1" -> 1 [] c = "2" -> 2 [] c = "3" -> 3 [] c = "4" -> 4
      [] c = "5" -> 5 [] c = "6" -> 6 [] c = "7" -> 7 [] c = "8" -> 8 [] c = "9" -> 9

\* int(str) of a string of digits
RECURSIVE IntOf(_)
IntOf(str) ==
    IF Len(str) = 0 THEN 0
    ELSE 10 * IntOf(SubSeq(str, 1, Len(str) - 1)) + DigitValue(CharAt(str, Len(str)))

\* a one- or two-digit field whose value lies in lo..hi (%m, %d, %H, %M)
IsField(str, lo, hi) ==
    /\ Len(str) \in {1, 2}
    /\ IsDigits(str)
    /\ IntOf(str) \in lo..hi

\* %d also takes a space followed by one digit
IsDayField(str) ==
    \/ IsField(str, 1, 31)
    \/ Len(str) = 2 /\ CharAt(str, 1) = " " /\ IsField(CharAt(str, 2), 1, 9)

DayValue(str) == IF CharAt(str, 1) = " " THEN IntOf(CharAt(str, 2)) ELSE IntOf(str)

IsLeap(year) == year % 4 = 0 /\ (year % 100 # 0 \/ year % 400 = 0)

DaysInMonth(year, month) ==
    IF month = 2 THEN (IF IsLeap(year) THEN 29 ELSE 28)
    ELSE IF month \in {4, 6, 9, 11} THEN 30
    ELSE 31

\* the datetime constructor accepts the fields
IsDatetime(dt) ==
    /\ dt.year >= 1
    /\ dt.month \in 1..12
    /\ dt.day \in 1..DaysInMonth(dt.year, dt.month)

\* the ways str reads as '%Y-%m-%d' followed by a rest: four digits, '-',
\* a month field, '-', a day field
DateReadings(str) ==
    {r \in [lm : {1, 2}, ld : {1, 2}] :
        /\ Len(str) >= 6 + r.lm + r.ld
        /\ IsDigits(SubSeq(str, 1, 4))
        /\ CharAt(str, 5) = "-"
        /\ IsField(SubSeq(str, 6, 5 + r.lm), 1, 12)
        /\ CharAt(str, 6 + r.lm) = "-"
        /\ IsDayField(SubSeq(str, 7 + r.lm, 6 + r.lm + r.ld))}

DateOf(str, r) ==
    [year  |-> IntOf(SubSeq(str, 1, 4)),
     month |-> IntOf(SubSeq(str, 6, 5 + r.lm)),
     day   |-> DayValue(SubSeq(str, 7 + r.lm, 6 + r.lm + r.ld))]

\* the ways rest reads as ' %H:%M': whitespace, an hour field, ':', a minute
\* field, and nothing after it
TimeReadings(rest) ==
    {r \in [ws : 1..Len(rest), lh : {1, 2}, lmi : {1, 2}] :
        /\ Len(rest) = r.ws + r.lh + 1 + r.lmi
        /\ \A i \in 1..r.ws : CharAt(rest, i) \in Whitespace
        /\ IsField(SubSeq(rest, r.ws + 1, r.ws + r.lh), 0, 23)
        /\ CharAt(rest, r.ws + r.lh + 1) = ":"
        /\ IsField(SubSeq(rest, r.ws + r.lh + 2, Len(rest)), 0, 59)}

\* datetime.strptime(date_str, '%Y-%m-%d'): the set of results, empty when
\* the call raises ValueError
StrptimeDate(date_str) ==
    {dt \in {DateOf(date_str, r) @@ [hour |-> 0, minute |-> 0] :
                r \in {q \in DateReadings(date_str) :
                          Len(date_str) = 6 + q.lm + q.ld}} :
        IsDatetime(dt)}

\* datetime.strptime(date_str, '%Y-%m-%d %H:%M')
StrptimeDateTime(date_str) ==
    {dt \in UNION {LET rest == SubSeq(date_str, 7 + r.lm + r.ld, Len(date_str)) IN
                   {DateOf(date_str, r)
                       @@ [hour   |-> IntOf(SubSeq(rest, t.ws + 1, t.ws + t.lh)),
                           minute |-> IntOf(SubSeq(rest, t.ws + t.lh + 2, Len(rest)))] :
                       t \in TimeReadings(rest)} :
                   r \in DateReadings(date_str)} :
        IsDatetime(dt)}

\* ConfigParser._validate_date_format returns (TRUE) or raises ConfigError
ValidDateFormat(date_str) ==
    StrptimeDateTime(date_str) # {} \/ StrptimeDate(date_str) # {}

\* GitHubCommitTracker._parse_date: the datetime, or no result when strptime
\* raises ValueError
ParseDate(date_str) == StrptimeDate(date_str)

(***************************************************************************)
(* Configuration loading: ConfigParser.load and _validate_config.          *)
(* A configuration file is [state, content, scalars]: state says whether   *)
(* the file exists and is YAML, content is what yaml.safe_load returns,    *)
(* scalars names the places where the file holds a plain string although   *)
(* a list or a mapping is expected (the value kept in content is then the   *)
(* one-element list of that string).                                       *)
(***************************************************************************)
UsernamesPath == "github.usernames"
BranchesPath == "branch_strategy.branches"
OverridesPath == "branch_strategy.overrides"
OverrideBranchesPath(repo_name) == "branch_strategy.overrides." \o repo_name \o ".branches"

\* the github section: token, organizations, usernames
GithubErrors(github_config, scalars) ==
    IF Falsy(Get(github_config, "token", None))
    THEN {"GitHub token is required"}
    ELSE IF Get(github_config, "organizations", <<>>) = <<>>
    THEN {"At least one organization must be specified"}
    ELSE IF Get(github_config, "usernames", <<>>) = <<>> \/ UsernamesPath \in scalars
    THEN {"At least one username must be specified in usernames array"}
    ELSE {}

\* one entry of branch_strategy.overrides
OverrideErrors(repo_name, strategy, scalars) ==
    IF ~HasSlash(repo_name)
    THEN {"Invalid repository name in overrides"}
    ELSE IF Get(strategy, "mode", None) \notin Modes
    THEN {"Invalid mode for repository"}
    ELSE IF ~ValidStrategy(strategy) \/ OverrideBranchesPath(repo_name) \in scalars
    THEN {"branch_strategy.overrides.branches is required and must be a list"}
    ELSE {}

\* the branch_strategy section; the loop over the overrides raises at the
\* first entry with an error, in the mapping's order, which the content does
\* not record: any entry with an error may be that one
StrategyErrors(branch_strategy_section, scalars) ==
    LET mode      == Get(branch_strategy_section, "mode", None)
        overrides == Get(branch_strategy_section, "overrides", EmptyDict)
    IN  IF DOMAIN branch_strategy_section = {}
        THEN {"branch_strategy section is required"}
        ELSE IF mode \notin Modes
        THEN {"branch_strategy.mode must be one of: 'all', 'specific', 'priority'"}
        ELSE IF /\ mode \in {"specific", "priority"}
                /\ ~ValidStrategy(branch_strategy_section) \/ BranchesPath \in scalars
        THEN {"branch_strategy.branches is required and must be a list"}
        ELSE IF DOMAIN overrides = {}
        THEN {}
        ELSE IF OverridesPath \in scalars
        THEN {"branch_strategy.overrides must be a dictionary"}
        ELSE UNION {OverrideErrors(name, overrides[name], scalars) :
                       name \in DOMAIN overrides}

\* the date_range section: 'from' is validated before 'to'
DateRangeErrors(date_range_section) ==
    LET from_date == Get(date_range_section, "from", None)
        to        == Get(date_range_section, "to", None)
    IN  IF ~Falsy(from_date) /\ ~ValidDateFormat(from_date)
        THEN {"Invalid from date format"}
        ELSE IF ~Falsy(to) /\ ~ValidDateFormat(to)
        THEN {"Invalid to date format"}
        ELSE {}

\* ConfigParser._validate_config: the ConfigError messages it may raise, none
\* when it returns
ValidateConfig(content, scalars) ==
    IF DOMAIN content = {}
    THEN {"Empty configuration file"}
    ELSE IF GithubErrors(Get(content, "github", EmptyDict), scalars) # {}
    THEN GithubErrors(Get(content, "github", EmptyDict), scalars)
    ELSE IF StrategyErrors(Get(content, "branch_strategy", EmptyDict), scalars) # {}
    THEN StrategyErrors(Get(content, "branch_strategy", EmptyDict), scalars)
    ELSE DateRangeErrors(Get(content, "date_range", EmptyDict))

\* faulty variant: the file is read but its content is not validated
LoadErrorsUnvalidated(file) ==
    IF file.state = "missing" THEN {"Configuration file not found"}
    ELSE IF file.state = "invalid_yaml" THEN {"Invalid YAML format"}
    ELSE {}

\* ConfigParser.load: the ConfigError messages it may raise, none when it
\* returns the configuration
LoadErrors(file) ==
    IF file.state = "missing" THEN {"Configuration file not found"}
    ELSE IF file.state = "invalid_yaml" THEN {"Invalid YAML format"}
    ELSE ValidateConfig(file.content, file.scalars)

(***************************************************************************)
(* The configuration files of a run: a valid base configuration varied in  *)
(* one section at a time.                                                  *)
(***************************************************************************)
BaseGithub ==
    [token |-> "ghp_token", organizations |-> <<"acme", "beta">>, usernames |-> <<"alice">>]

BaseStrategy == [mode |-> "priority", branches |-> <<"main", "dev">>]

BaseDateRange == [from |-> "2024-06-03"]

\* the dict without a key
Without(d, key) == [k \in DOMAIN d \ {key} |-> d[k]]

GithubSections ==
    {BaseGithub,
     Without(BaseGithub, "token"),
     [BaseGithub EXCEPT !.token = ""],
     Without(BaseGithub, "organizations"),
     [BaseGithub EXCEPT !.organizations = <<>>],
     Without(BaseGithub, "usernames"),
     [BaseGithub EXCEPT !.usernames = <<>>],
     [BaseGithub EXCEPT !.organizations = <<"beta">>, !.usernames = <<"bob", "alice">>]}

MainStrategies ==
    {[mode |-> "all"],
     [mode |-> "specific", branches |-> <<"dev", "main">>],
     [mode |-> "priority", branches |-> <<"rel", "main">>],
     [mode |-> "legacy", branches |-> <<"main">>],
     [branches |-> <<"main">>],
     [mode |-> "specific"],
     [mode |-> "priority", branches |-> <<>>]}

MainOverrideKeys == {"acme/b", "acmeb", "/b", "acme/", "/"}

MainOverrideTables ==
    {EmptyDict}
        \cup UNION {[{k} -> MainStrategies] : k \in MainOverrideKeys}
        \cup {[k \in {"acme/b", "beta/c"} |-> [mode |-> "all"]],
              [k \in {"acme/b", "acmeb"} |-> [mode |-> "all"]]}

BranchSections ==
    {EmptyDict}
        \cup MainStrategies
        \cup {d @@ [overrides |-> t] : d \in MainStrategies, t \in MainOverrideTables}

MainDateStrings == DateStrings \cup {"2024-6-3", "06/03/2024", "2024-02-30"}

MainDateRanges ==
    LET froms == MainDateStrings \cup {None, ""}
        tos   == {"2024-06-07", "2024-06-05 09:30", "soon"}
    IN  {EmptyDict}
            \cup {[from |-> f] : f \in froms}
            \cup {[to |-> t] : t \in tos}
            \cup {[from |-> f, to |-> t] : f \in froms, t \in tos}

ConfigContents ==
    {EmptyDict,
     [branch_strategy |-> BaseStrategy, date_range |-> BaseDateRange],
     [github |-> BaseGithub, date_range |-> BaseDateRange],
     [github |-> BaseGithub, branch_strategy |-> BaseStrategy]}
        \cup {[github |-> g, branch_strategy |-> BaseStrategy, date_range |-> BaseDateRange] :
                 g \in GithubSections}
        \cup {[github |-> BaseGithub, branch_strategy |-> b, date_range |-> BaseDateRange] :
                 b \in BranchSections}
        \cup {[github |-> BaseGithub, branch_strategy |-> BaseStrategy, date_range |-> d] :
                 d \in MainDateRanges}

\* a configuration in which each place of `scalars` holds a non-empty value
ScalarContent ==
    [github          |-> BaseGithub,
     branch_strategy |-> [mode      |-> "specific",
                          branches  |-> <<"main">>,
                          overrides |-> [k \in {"acme/b"} |->
                                            [mode |-> "priority", branches |-> <<"dev">>]]],
     date_range      |-> BaseDateRange]

ScalarPaths ==
    {UsernamesPath, BranchesPath, OverridesPath, OverrideBranchesPath("acme/b")}

ConfigFiles ==
    {[state |-> "missing", content |-> EmptyDict, scalars |-> {}],
     [state |-> "invalid_yaml", content |-> EmptyDict, scalars |-> {}]}
        \cup {[state |-> "ok", content |-> c, scalars |-> {}] : c \in ConfigContents}
        \cup {[state |-> "ok", content |-> ScalarContent, scalars |-> {p}] :
                 p \in ScalarPaths}

\* one clock whose yesterday is a weekend day and one whose yesterday is not
MainClocks == {c \in Clocks : c.minute = 0 /\ c.ord - FirstDay \in {1, 3}}

MainFailures == {f \in Failures : f.kind \in {"none", "org"}}

(***************************************************************************)
(* The command-line run: main (main.py).                                   *)
(***************************************************************************)
InitMain ==
    /\ pc = "main"
    /\ config_file \in ConfigFiles
    /\ dry_run \in BOOLEAN
    /\ clock \in MainClocks
    /\ failing \in MainFailures
    /\ load_error = None
    /\ self_from_date = NoDatetime
    /\ self_to_date = NoDatetime
    /\ exit_code = 0
    /\ stdout = <<>>
    /\ stderr = <<>>
    /\ sort_order = "asc"
    /\ sorted_commits = <<>>
    /\ config_date_range = EmptyDict
    /\ clock_reads = 0
    /\ yesterday = [ord |-> 0, minute |-> 0]
    /\ to_date = None
    /\ prompts = 0
    /\ answer = None
    /\ date_range = [from |-> None, to |-> None]
    /\ usernames = <<>>
    /\ organizations = <<>>
    /\ org_idx = 0
    /\ repositories = <<>>
    /\ repo_idx = 0
    /\ branch_idx = 0
    /\ remote_commits = [commits |-> <<>>, raises_after |-> -1]
    /\ branch_commits = <<>>
    /\ all_commits = <<>>
    /\ fetch_log = <<>>
    /\ remote_calls = 0
    /\ ResolveIdle

\* main up to the get_date_range call: load_config and the getters, or the
\* ConfigError handler
LoadConfigStep ==
    /\ pc = "main"
    /\ stdout' = Append(stdout, "Loading configuration")
    /\ IF LoadErrors(config_file) # {}
       THEN /\ \E message \in LoadErrors(config_file) : load_error' = message
            /\ stderr' = Append(stderr, "Configuration error")
            /\ exit_code' = 1
            /\ pc' = "exit"
            /\ UNCHANGED <<organizations, usernames, branch_strategy, config_date_range>>
       ELSE /\ organizations' = Get(Get(config_file.content, "github", EmptyDict),
                                     "organizations", <<>>)
            /\ usernames' = Get(Get(config_file.content, "github", EmptyDict),
                                 "usernames", <<>>)
            /\ branch_strategy' = GetBranchStrategy(None, Get(config_file.content,
                                                              "branch_strategy", EmptyDict))
            /\ config_date_range' = Get(config_file.content, "date_range", EmptyDict)
            /\ pc' = "date"
            /\ UNCHANGED <<load_error, stderr, exit_code>>
    /\ UNCHANGED <<config_file, self_from_date, self_to_date, sort_order, sorted_commits>>
    /\ UNCHANGED <<repo_full_name, repo_strategy, cfg_strategy, remote_branches,
                   all_branches, target_branches>>
    /\ UNCHANGED <<dry_run, clock, clock_reads, yesterday, to_date, prompts, answer,
                   date_range>>
    /\ UNCHANGED <<failing, org_idx, repositories, repo_idx, branch_idx, remote_commits,
                   branch_commits, all_commits, fetch_log, remote_calls>>

\* self._parse_date(date) if date else None
ClientDate(date) == IF Falsy(date) THEN NoDatetime ELSE CHOOSE dt \in ParseDate(date) : TRUE

\* GitHubCommitTracker.__init__ raises ValueError
ClientRaises(range) ==
    \/ ~Falsy(range.from) /\ ParseDate(range.from) = {}
    \/ ~Falsy(range.to) /\ ParseDate(range.to) = {}

\* main from the printing of the settings to the start of the collection:
\* the dry-run return, or create_github_client
ConnectStep ==
    /\ pc = "date_done"
    /\ IF dry_run
       THEN /\ stdout' = stdout \o <<"Settings", "Dry run mode">>
            /\ pc' = "exit"
            /\ UNCHANGED <<self_from_date, self_to_date, stderr, exit_code, org_idx>>
       ELSE IF ClientRaises(date_range)
       THEN /\ stdout' = stdout \o <<"Settings", "Connecting to GitHub API">>
            /\ stderr' = Append(stderr, "Error")
            /\ exit_code' = 1
            /\ pc' = "exit"
            /\ UNCHANGED <<self_from_date, self_to_date, org_idx>>
       ELSE /\ stdout' = stdout \o <<"Settings", "Connecting to GitHub API",
                                     "Collecting commits">>
            /\ self_from_date' = ClientDate(date_range.from)
            /\ self_to_date' = ClientDate(date_range.to)
            /\ org_idx' = 1
            /\ pc' = "collect_org"
            /\ UNCHANGED <<stderr, exit_code>>
    /\ UNCHANGED <<config_file, load_error, sort_order, sorted_commits>>
    /\ UNCHANGED <<resolveVars, dateVars>>
    /\ UNCHANGED <<usernames, organizations, failing, repositories, repo_idx, branch_idx,
                   remote_commits, branch_commits, all_commits, fetch_log, remote_calls>>

\* main after get_commits_from_organizations returned: the sort stage and
\* the output
FinishStep ==
    /\ pc = "collect_done"
    /\ IF all_commits = <<>>
       THEN /\ stdout' = Append(stdout, "No commits found")
            /\ UNCHANGED sorted_commits
       ELSE /\ sorted_commits' = SortCommits(all_commits, "asc")
            /\ stdout' = Append(stdout, "Output")
    /\ pc' = "exit"
    /\ UNCHANGED <<config_file, load_error, self_from_date, self_to_date, exit_code,
                   stderr, sort_order>>
    /\ UNCHANGED <<resolveVars, dateVars, collectVars>>

NextMain ==
    \/ LoadConfigStep
    \/ GetDateRangeStep
    \/ PromptAnswerStep
    \/ ConnectStep
    \/ ProcessOrganization
    \/ ProcessRepository
    \/ ProcessBranch
    \/ FinishStep

SpecMain == InitMain /\ [][NextMain]_vars

(***************************************************************************)
(* Claims about the command-line run (SpecMain).                           *)
(***************************************************************************)
ContentOf(file) == file.content

StrategySection(file) == Get(ContentOf(file), "branch_strategy", EmptyDict)

OverridesOf(file) == Get(StrategySection(file), "overrides", EmptyDict)

DateRangeOf(file) == Get(ContentOf(file), "date_range", EmptyDict)

\* a required field is absent or empty
MissingRequiredField(file) ==
    LET github == Get(ContentOf(file), "github", EmptyDict) IN
    \/ "token" \notin DOMAIN github \/ github.token = ""
    \/ "organizations" \notin DOMAIN github \/ Len(github.organizations) = 0
    \/ "usernames" \notin DOMAIN github \/ Len(github.usernames) = 0
    \/ "branch_strategy" \notin DOMAIN ContentOf(file)
    \/ "mode" \notin DOMAIN StrategySection(file)

NotAMode(strategy) ==
    "mode" \in DOMAIN strategy /\ strategy.mode \notin {"all", "specific", "priority"}

InvalidMode(file) ==
    \/ NotAMode(StrategySection(file))
    \/ \E name \in DOMAIN OverridesOf(file) : NotAMode(OverridesOf(file)[name])

\* a date that is given and reads as a date in neither layout
InvalidDateFormat(file) ==
    \E key \in DOMAIN DateRangeOf(file) :
        /\ DateRangeOf(file)[key] \notin {None, ""}
        /\ StrptimeDate(DateRangeOf(file)[key]) = {}
        /\ StrptimeDateTime(DateRangeOf(file)[key]) = {}

ConfigurationError(file) ==
    \/ file.state = "missing"
    \/ file.state = "invalid_yaml"
    \/ MissingRequiredField(file)
    \/ InvalidMode(file)
    \/ InvalidDateFormat(file)

\* C11: the remote API is contacted only after the configuration was loaded
\* and validated without error and only when dry-run is not set; a run whose
\* configuration has an error (missing file, invalid YAML, missing required
\* field, invalid mode, invalid date format) ends with exit code 1 and no
\* remote call; a dry-run with an accepted configuration prints the resolved
\* settings and ends with no remote call.
C11_RemoteOnlyAfterValidation ==
    /\ [](remote_calls > 0 =>
             /\ ~ConfigurationError(config_file)
             /\ load_error = None
             /\ ~dry_run)
    /\ []((pc = "exit" /\ ConfigurationError(config_file)) =>
             /\ exit_code = 1
             /\ stderr = <<"Configuration error">>
             /\ remote_calls = 0)
    /\ []((pc = "exit" /\ dry_run /\ load_error = None) =>
             /\ Contains(stdout, "Settings")
             /\ exit_code = 0
             /\ remote_calls = 0)
    /\ [][remote_calls' # remote_calls =>
             /\ Contains(stdout, "Loading configuration")
             /\ Contains(stdout, "Settings")
             /\ load_error = None
             /\ ~dry_run]_vars

C11_Witness ==
    /\ pc = "exit"
    /\ ~dry_run
    /\ config_file.state = "ok"
    /\ InvalidDateFormat(config_file)
    /\ ~MissingRequiredField(config_file)
    /\ ~InvalidMode(config_file)
    /\ exit_code = 1
    /\ stderr = <<"Configuration error">>
    /\ remote_calls = 0

\* a string of the form YYYY-MM-DD
IsDateForm(str) ==
    /\ Len(str) = 10
    /\ \A i \in {1, 2, 3, 4, 6, 7, 9, 10} : CharAt(str, i) \in Digits
    /\ CharAt(str, 5) = "-"
    /\ CharAt(str, 8) = "-"

\* a string of the form YYYY-MM-DD HH:MM
IsDateTimeForm(str) ==
    /\ Len(str) = 16
    /\ IsDateForm(SubSeq(str, 1, 10))
    /\ CharAt(str, 11) = " "
    /\ \A i \in {12, 13, 15, 16} : CharAt(str, i) \in Digits
    /\ CharAt(str, 14) = ":"

\* the file with the time of day dropped from its dates
WithoutTimes(file) ==
    [file EXCEPT !.content =
        [key \in DOMAIN file.content |->
            IF key = "date_range"
            THEN [k \in DOMAIN file.content.date_range |->
                     IF IsDateTimeForm(file.content.date_range[k])
                     THEN SubSeq(file.content.date_range[k], 1, 10)
                     ELSE file.content.date_range[k]]
            ELSE file.content[key]]]

HasDateTimeBound(file) ==
    \E key \in DOMAIN DateRangeOf(file) : IsDateTimeForm(DateRangeOf(file)[key])

\* C12: a configuration with a from or to date of the form YYYY-MM-DD HH:MM
\* that is acceptable once the time of day is dropped passes validation, and
\* a run that is not a dry-run ends without a fatal error, as it does for
\* the YYYY-MM-DD date.
C12_DateTimeAccepted ==
    (/\ pc = "exit"
     /\ ~dry_run
     /\ config_file.state = "ok"
     /\ HasDateTimeBound(config_file)
     /\ LoadErrors(WithoutTimes(config_file)) = {})
        => /\ load_error = None
           /\ exit_code = 0
           /\ stderr = <<>>

\* a non-empty organization part, a slash, a non-empty repository part
MatchesOrgRepo(name) == \E i \in 2..(Len(name) - 1) : CharAt(name, i) = "/"

\* C13: a configuration that validation accepted has only override keys of
\* the pattern non-empty/non-empty; any other key is rejected with a
\* configuration error.
C13_OverrideKeysWellFormed ==
    (pc # "main" /\ load_error = None)
        => \A name \in DOMAIN OverridesOf(config_file) : MatchesOrgRepo(name)

\* mode in {all, specific, priority} and, for specific and priority, at
\* least one branch
WellFormedStrategy(strategy) ==
    /\ "mode" \in DOMAIN strategy
    /\ strategy.mode \in {"all", "specific", "priority"}
    /\ strategy.mode \in {"specific", "priority"} =>
          "branches" \in DOMAIN strategy /\ Len(strategy.branches) > 0

NeedsBranches(strategy) ==
    "mode" \in DOMAIN strategy /\ strategy.mode \in {"specific", "priority"}

\* the default strategy or an override of the file is not well formed, or
\* holds a plain string where it needs the list of branches
ViolatesStrategyRule(file) ==
    \/ ~WellFormedStrategy(StrategySection(file))
    \/ NeedsBranches(StrategySection(file)) /\ BranchesPath \in file.scalars
    \/ \E name \in DOMAIN OverridesOf(file) :
          \/ ~WellFormedStrategy(OverridesOf(file)[name])
          \/ /\ NeedsBranches(OverridesOf(file)[name])
             /\ OverrideBranchesPath(name) \in file.scalars

\* C14: every strategy handed to _get_target_branches during a collection
\* has a mode in {all, specific, priority} and a non-empty list of branches
\* when the mode is specific or priority; a configuration whose default or
\* override breaks this is rejected by validation and its run makes no
\* remote call and resolves no target branches.
C14_StrategiesWellFormed ==
    /\ pc = "collect_branch" => WellFormedStrategy(repo_strategy)
    /\ (config_file.state = "ok" /\ "branch_strategy" \in DOMAIN ContentOf(config_file)
            /\ ViolatesStrategyRule(config_file))
          => /\ pc \in {"main", "exit"}
             /\ remote_calls = 0
             /\ pc = "exit" => (load_error # None /\ exit_code = 1)

C14_Witness ==
    /\ pc = "collect_branch"
    /\ repo_full_name = "acme/b"
    /\ "acme/b" \in DOMAIN OverridesOf(config_file)
    /\ HasMode(branch_strategy, "all")
    /\ repo_strategy = [mode |-> "specific", branches |-> <<"dev", "main">>]
    /\ target_branches = <<"dev">>

====
